---- MODULE Spec2Model ----
(***************************************************************************)
(* RoadWatch Kerala: the report submission pipeline of src/files/backend.py *)
(* (identity resolution, validation, duplicate guard, AI moderation,       *)
(* reputation ledger, report store) as a state machine.                    *)
(*                                                                         *)
(* Conventions of the model:                                               *)
(*   - time is counted in hours (time_window_hours = 24);                  *)
(*   - reputation_score is counted in half points (100.0 -> 200,           *)
(*     +0.5 -> +1, -2.0 -> -4, 20.0 -> 40): every value the code computes  *)
(*     is a multiple of 0.5, so the scaling is exact;                      *)
(*   - confidence is counted in hundredths (0.3 -> 30, 0.5 -> 50);         *)
(*   - Python None is "None" for strings, 0 for ids, -1 for timestamps;    *)
(*   - a string the code inspects character by character (the plate) is a  *)
(*     sequence of one-character strings;                                  *)
(*   - the text returned by the moderation service is a sequence of        *)
(*     tokens: "{", "}", a whole "key:value" member, or "x" (prose).       *)
(***************************************************************************)
EXTENDS Integers, Sequences, FiniteSets, TLC

VARIABLES
    now,        \* the wall clock, datetime.now(timezone.utc), in hours
    users,      \* table users (committed rows), keyed by firebase_uid
    reports,    \* table reports (committed rows), in id order: id = index
    pc,         \* where each request worker stands in submit_report
    sess,       \* each worker's request and SQLAlchemy session (uncommitted)
    client,     \* the credential the client of this run presents
    archive,    \* per account, its reports stored before this run (they are
                \* older than the window and are not kept in reports)
    last,       \* the HTTP response sent by the latest step
    adj,        \* one call of moderate_report_with_ai, on its own
    ledger,     \* one call of User.update_stats, on its own
    validation  \* one call of validate_plate_number, on its own; its input
                \* is also the plate as the client of SpecAnon writes it

vars == <<now, users, reports, pc, sess, client, archive, last, adj, ledger, validation>>

\* the functions called on their own
units == <<adj, ledger, validation>>

(***************************************************************************)
(* Bounds of the model                                                     *)
(***************************************************************************)
MaxReports == 4
MaxTicks == 2
MaxTextLen == 4
MaxCounter == 1
MaxPad == 2
MaxApproved == 11
MaxRejected == 2
MaxOther == 2
MaxCareer == 42

\* the clock advances by whole windows, so that a report is seen exactly on
\* the boundary of the window (24 h old) and past it (48 h old)
TickSteps == {24}

Horizon == MaxTicks * 24

\* the request workers; a request is given to the first free one
Procs == {1, 2}

Uids == {"uidA"}

Ips == {"ip1"}

(***************************************************************************)
(* Program constants                                                       *)
(***************************************************************************)
time_window_hours == 24
DuplicateLimit == 3
RepInitial == 200
RepMax == 200
RepMin == 0
RepGain == 1
RepLoss == 4
BanThreshold == 40
ConfAiError == 30
ConfDefault == 50
DefaultLimit == 10

BanReasonText == "Automatic ban due to low reputation score (multiple rejected reports)"

(***************************************************************************)
(* Plate Validator                                                         *)
(***************************************************************************)
LowerSeq ==
    << "a","b","c","d","e","f","g","h","i","j","k","l","m",
       "n","o","p","q","r","s","t","u","v","w","x","y","z" >>

UpperSeq ==
    << "A","B","C","D","E","F","G","H","I","J","K","L","M",
       "N","O","P","Q","R","S","T","U","V","W","X","Y","Z" >>

Digits == {"0","1","2","3","4","5","6","7","8","9"}

UpperLetters == {UpperSeq[i] : i \in 1..26}

\* str.upper(), character by character
UpperChar(c) ==
    IF \E i \in 1..26 : LowerSeq[i] = c
    THEN UpperSeq[CHOOSE i \in 1..26 : LowerSeq[i] = c]
    ELSE c

\* variant of upper that leaves the letters as they are:
\* C23_LookupIgnoresCase tells the two apart
upper_as_written(s) == s

upper(s) == [i \in 1..Len(s) |-> UpperChar(s[i])]

\* re.match(r'^KL-\d{2}-[A-Z]{1,2}-\d{1,4}$', plate): a letters and b digits;
\* Python's $ also matches just before one trailing newline.
validate_plate_number(plate) ==
    \E a \in 1..2, b \in 1..4 :
        LET n == 7 + a + b IN
        /\ \/ Len(plate) = n
           \/ Len(plate) = n + 1 /\ plate[n + 1] = "\n"
        /\ plate[1] = "K" /\ plate[2] = "L" /\ plate[3] = "-"
        /\ plate[4] \in Digits /\ plate[5] \in Digits
        /\ plate[6] = "-"
        /\ \A i \in 7..(6 + a) : plate[i] \in UpperLetters
        /\ plate[7 + a] = "-"
        /\ \A i \in (8 + a)..(7 + a + b) : plate[i] \in Digits

(***************************************************************************)
(* Moderation Adjudicator                                                  *)
(***************************************************************************)
MemberTokens ==
    { "approved:true", "approved:false", "reason:spam",
      "confidence:0.9", "confidence:1.7", "flags:[spam]" }

JsonKeys == {"approved", "reason", "confidence", "flags"}

\* the key of a "key:value" member
MemberKey(tok) ==
    CASE tok \in {"approved:true", "approved:false"} -> "approved"
      [] tok = "reason:spam" -> "reason"
      [] tok \in {"confidence:0.9", "confidence:1.7"} -> "confidence"
      [] tok = "flags:[spam]" -> "flags"
      [] OTHER -> "None"

\* re.search(r'\{.*\}', response_text, re.DOTALL): greedy, so the match runs
\* from the first "{" that has a "}" after it to the last "}" of the text.
HasJsonMatch(text) ==
    \E i, j \in 1..Len(text) : i < j /\ text[i] = "{" /\ text[j] = "}"

JsonMatch(text) ==
    LET i == CHOOSE a \in 1..Len(text) :
                 /\ text[a] = "{"
                 /\ \A b \in 1..(a - 1) : text[b] # "{"
        j == CHOOSE a \in 1..Len(text) :
                 /\ text[a] = "}"
                 /\ \A b \in (a + 1)..Len(text) : text[b] # "}"
    IN  SubSeq(text, i, j)

\* json.loads(m) returns a dict exactly when m is "{" members "}"
JsonValid(m) ==
    /\ Len(m) >= 2
    /\ m[1] = "{"
    /\ m[Len(m)] = "}"
    /\ \A i \in 2..(Len(m) - 1) : m[i] \in MemberTokens

\* the parsed dict: for each key present, its last member (json.loads keeps
\* the last of repeated keys)
HasKey(m, key) == \E i \in 2..(Len(m) - 1) : MemberKey(m[i]) = key

LastMember(m, key) ==
    m[CHOOSE i \in 2..(Len(m) - 1) :
          /\ MemberKey(m[i]) = key
          /\ \A j \in (i + 1)..(Len(m) - 1) : MemberKey(m[j]) # key]

Verdict(approved, reason, confidence, flags) ==
    [approved |-> approved, reason |-> reason,
     confidence |-> confidence, flags |-> flags]

\* the except branch: approve, but flag for manual review
AiErrorVerdict ==
    Verdict(TRUE, "AI unavailable, flagged for manual review", ConfAiError,
            <<"ai_error">>)

\* the else branch: no JSON object located in the text
UnparsedVerdict ==
    Verdict(TRUE, "Unable to parse AI response, approved by default",
            ConfDefault, <<>>)

\* the value of a member, by the type its key is given
ConfidenceOf(tok) ==
    CASE tok = "confidence:0.9" -> 90
      [] tok = "confidence:1.7" -> 170
      [] OTHER -> ConfDefault

ReasonOf(tok) == IF tok = "reason:spam" THEN "spam report" ELSE "None"

FlagsOf(tok) == IF tok = "flags:[spam]" THEN <<"spam">> ELSE <<>>

\* variant of ParsedVerdict whose default for the key approved is true:
\* C7_ParsedDefaults tells the two apart
ParsedVerdictApprovedDefault(m) ==
    Verdict(IF HasKey(m, "approved")
                THEN LastMember(m, "approved") = "approved:true"
                ELSE TRUE,
            IF HasKey(m, "reason") THEN ReasonOf(LastMember(m, "reason"))
                ELSE "AI moderation completed",
            IF HasKey(m, "confidence")
                THEN ConfidenceOf(LastMember(m, "confidence"))
                ELSE 50,
            IF HasKey(m, "flags") THEN FlagsOf(LastMember(m, "flags"))
                ELSE <<>>)

\* moderation_result.get(key, default) for the four keys
ParsedVerdict(m) ==
    Verdict(IF HasKey(m, "approved")
                THEN LastMember(m, "approved") = "approved:true"
                ELSE FALSE,
            IF HasKey(m, "reason") THEN ReasonOf(LastMember(m, "reason"))
                ELSE "AI moderation completed",
            IF HasKey(m, "confidence")
                THEN ConfidenceOf(LastMember(m, "confidence"))
                ELSE ConfDefault,
            IF HasKey(m, "flags") THEN FlagsOf(LastMember(m, "flags"))
                ELSE <<>>)

\* variant of moderate_report_with_ai that rejects when the call raises:
\* C5_RaiseFailsSafe tells the two apart
moderate_raise_rejects(outcome) ==
    IF outcome.raises
    THEN Verdict(FALSE, "AI unavailable, flagged for manual review", 30,
                 <<"ai_error">>)
    ELSE IF ~HasJsonMatch(outcome.text) THEN UnparsedVerdict
    ELSE IF ~JsonValid(JsonMatch(outcome.text)) THEN AiErrorVerdict
    ELSE ParsedVerdict(JsonMatch(outcome.text))

\* variant of moderate_report_with_ai that treats a text without an object
\* as it treats an error: C6_UnparseableApproved tells the two apart
moderate_unparsed_is_error(outcome) ==
    IF outcome.raises THEN AiErrorVerdict
    ELSE IF ~HasJsonMatch(outcome.text) THEN AiErrorVerdict
    ELSE IF ~JsonValid(JsonMatch(outcome.text)) THEN AiErrorVerdict
    ELSE ParsedVerdict(JsonMatch(outcome.text))

\* variant of moderate_report_with_ai that rejects when json.loads fails on
\* the match: C26_BracesWithoutJsonFailSafe tells the two apart
moderate_invalid_json_rejects(outcome) ==
    IF outcome.raises THEN AiErrorVerdict
    ELSE IF ~HasJsonMatch(outcome.text) THEN UnparsedVerdict
    ELSE IF ~JsonValid(JsonMatch(outcome.text))
    THEN Verdict(FALSE, "AI moderation completed", ConfDefault, <<>>)
    ELSE ParsedVerdict(JsonMatch(outcome.text))

\* outcome = [raises |-> the call raised, text |-> the text it returned]
moderate_report_with_ai(outcome) ==
    IF outcome.raises THEN AiErrorVerdict
    ELSE IF ~HasJsonMatch(outcome.text) THEN UnparsedVerdict
    ELSE IF ~JsonValid(JsonMatch(outcome.text)) THEN AiErrorVerdict
    ELSE ParsedVerdict(JsonMatch(outcome.text))

Raised == [raises |-> TRUE, text |-> <<>>]

Returned(text) == [raises |-> FALSE, text |-> text]

(***************************************************************************)
(* Reputation Ledger: class User                                           *)
(***************************************************************************)
\* a row of table users that does not exist
NoRow ==
    [exists |-> FALSE, id |-> 0, total_reports |-> 0, approved_reports |-> 0,
     rejected_reports |-> 0, reputation_score |-> 0, is_banned |-> FALSE,
     ban_reason |-> "None", display_name |-> "None"]

\* ids are opaque: one per firebase_uid
UserId(uid) == IF uid = "uidA" THEN 1 ELSE 2

\* user_data['display_name'] of the verified token
TokenName(uid) == "name2"

\* User(firebase_uid=...) once flushed: the column defaults
NewUser(uid) ==
    [exists |-> TRUE, id |-> UserId(uid), total_reports |-> 0,
     approved_reports |-> 0, rejected_reports |-> 0,
     reputation_score |-> RepInitial, is_banned |-> FALSE,
     ban_reason |-> "None", display_name |-> TokenName(uid)]

Min(a, b) == IF a <= b THEN a ELSE b

Max(a, b) == IF a >= b THEN a ELSE b

\* variant of CountOutcome that does not clamp the reputation:
\* C19_ReputationInRange tells the two apart
CountOutcomeUnclamped(u, approved) ==
    IF approved
    THEN [u EXCEPT !.total_reports = @ + 1,
                   !.approved_reports = @ + 1,
                   !.reputation_score = @ + 1]
    ELSE [u EXCEPT !.total_reports = @ + 1,
                   !.rejected_reports = @ + 1,
                   !.reputation_score = @ - 4]

\* the counters and the reputation after one outcome
CountOutcome(u, approved) ==
    IF approved
    THEN [u EXCEPT !.total_reports = @ + 1,
                   !.approved_reports = @ + 1,
                   !.reputation_score = Min(RepMax, @ + RepGain)]
    ELSE [u EXCEPT !.total_reports = @ + 1,
                   !.rejected_reports = @ + 1,
                   !.reputation_score = Max(RepMin, @ - RepLoss)]

\* variant of AutoBan that sets the flag and leaves ban_reason as it is:
\* C20_BanReasonIffBanned tells the two apart
AutoBanWithoutReason(u) ==
    IF u.reputation_score < 40 /\ ~u.is_banned
    THEN [u EXCEPT !.is_banned = TRUE]
    ELSE u

\* variant of AutoBan whose threshold is 15.0: C27_LowReputationIsBanned
\* tells the two apart
AutoBanLowerThreshold(u) ==
    IF u.reputation_score < 30 /\ ~u.is_banned
    THEN [u EXCEPT !.is_banned = TRUE, !.ban_reason = BanReasonText]
    ELSE u

\* the auto-ban that follows every outcome
AutoBan(u) ==
    IF u.reputation_score < BanThreshold /\ ~u.is_banned
    THEN [u EXCEPT !.is_banned = TRUE, !.ban_reason = BanReasonText]
    ELSE u

\* variant of update_stats that tests the ban threshold before it counts the
\* outcome: C8_RecordOutcome tells the two apart
update_stats_ban_first(u, approved) == CountOutcome(AutoBan(u), approved)

\* lines 56-71
update_stats(u, approved) == AutoBan(CountOutcome(u, approved))

(***************************************************************************)
(* Report Store: class Report                                              *)
(***************************************************************************)
\* Report(plate_number=..., user_id=..., user_ip=...): status 'pending'
NewReport(plate_number, user_id, user_ip) ==
    [plate_number |-> plate_number, user_id |-> user_id, user_ip |-> user_ip,
     status |-> "pending", moderation_approved |-> FALSE,
     moderation_reason |-> "None", moderation_confidence |-> -1,
     moderation_flags |-> <<>>, moderation_reviewed_at |-> -1,
     created_at |-> -1]

\* variant of set_moderation that leaves moderation_reviewed_at unset:
\* C13_ReviewedIffModerated tells the two apart
set_moderation_unstamped(r, v, t) ==
    [r EXCEPT !.moderation_approved = v.approved,
              !.moderation_reason = v.reason,
              !.moderation_confidence = v.confidence,
              !.moderation_flags = v.flags,
              !.status = IF v.approved THEN "approved" ELSE "rejected"]

\* lines 80-87; t is utc_now()
set_moderation(r, v, t) ==
    [r EXCEPT !.moderation_approved = v.approved,
              !.moderation_reason = v.reason,
              !.moderation_confidence = v.confidence,
              !.moderation_flags = v.flags,
              !.moderation_reviewed_at = t,
              !.status = IF v.approved THEN "approved" ELSE "rejected"]

\* variant of check_duplicate_reports whose window excludes its boundary
\* (created_at > cutoff): C1_DuplicateGuardSequential tells the two apart
check_duplicate_reports_strict(plate_number, user_id, user_ip, is_authenticated, t) ==
    Cardinality({ i \in 1..Len(reports) :
        /\ reports[i].plate_number = plate_number
        /\ IF is_authenticated THEN reports[i].user_id = user_id
                               ELSE reports[i].user_ip = user_ip
        /\ reports[i].created_at > t - 24 })

\* variant of check_duplicate_reports that counts approved Reports only:
\* C29_RejectedCountTowardLimit tells the two apart
check_duplicate_reports_approved(plate_number, user_id, user_ip, is_authenticated, t) ==
    Cardinality({ i \in 1..Len(reports) :
        /\ reports[i].plate_number = plate_number
        /\ IF is_authenticated THEN reports[i].user_id = user_id
                               ELSE reports[i].user_ip = user_ip
        /\ reports[i].status = "approved"
        /\ reports[i].created_at >= t - time_window_hours })

\* check_duplicate_reports(plate_number, user_identifier, is_authenticated)
\* evaluated on the committed rows at time t
check_duplicate_reports(plate_number, user_id, user_ip, is_authenticated, t) ==
    Cardinality({ i \in 1..Len(reports) :
        /\ reports[i].plate_number = plate_number
        /\ IF is_authenticated THEN reports[i].user_id = user_id
                               ELSE reports[i].user_ip = user_ip
        /\ reports[i].created_at >= t - time_window_hours })

(***************************************************************************)
(* Identity Resolver: auth.py                                              *)
(***************************************************************************)
\* a credential is absent ("none"), a bearer token the verifier rejects
\* ("bad"), or a bearer token the verifier resolves to a firebase_uid
Creds == {"none", "bad"} \cup Uids

\* verify_firebase_token(token): the uid, or None
verify_firebase_token(token) == IF token \in Uids THEN token ELSE "None"

\* optional_auth: request.current_user
optional_auth(cred) ==
    IF cred # "none" THEN verify_firebase_token(cred) ELSE "None"

(***************************************************************************)
(* Requests and responses                                                  *)
(***************************************************************************)
PlateLower == << "k","l","-","0","7","-","a","-","1" >>

PlateUpper == << "K","L","-","0","7","-","A","-","1" >>

PlateBad == << "K","L","-","7","-","A","-","1" >>

\* a missing key and an empty value take the same branch of
\* `field not in data or not data[field]`: both are the empty value here
Body(plateNumber, violations, location) ==
    [plateNumber |-> plateNumber, violations |-> violations,
     location |-> location]

Bodies ==
    { Body(PlateLower, <<"no_helmet">>, "MG Road"),
      Body(PlateUpper, <<"no_helmet">>, "MG Road"),
      Body(PlateBad, <<"no_helmet">>, "MG Road"),
      Body(<<>>, <<"no_helmet">>, "MG Road"),
      Body(PlateUpper, <<"no_helmet">>, "") }

\* the first required field that is missing or empty, else "None"
MissingField(data) ==
    IF data.plateNumber = <<>> THEN "plateNumber"
    ELSE IF data.violations = <<>> THEN "violations"
    ELSE IF data.location = "" THEN "location"
    ELSE "None"

\* what the moderation service does under concurrent load: it fails, or it
\* returns a rejection
PipelineOutcomes ==
    { Raised,
      Returned(<<"{", "approved:false", "flags:[spam]", "}">>) }

\* what it does when requests come one at a time: also an approval wrapped in
\* prose, braces around no JSON, and no braces at all
SeqOutcomes ==
    PipelineOutcomes \cup
    { Returned(<<"x", "{", "approved:true", "}">>),
      Returned(<<"{", "x", "}">>),
      Returned(<<"x">>) }

NoVerdict == Verdict(FALSE, "None", -1, <<>>)

NoOutcome == Returned(<<>>)

\* stage: the return statement that answered (ghost); moderated, outcome,
\* verdict: the moderation call made for the request, if any (ghost);
\* plateNumber, items, total, limit, offset, safetyScore: the body of a read
\* response; path, tie: the request and the order the database gave to rows
\* of equal created_at (ghost)
NoResponse ==
    [code |-> 0, error |-> "None", reason |-> "None",
     reportId |-> 0, confidence |-> -1, flags |-> <<>>,
     stage |-> "none", moderated |-> FALSE,
     outcome |-> NoOutcome, verdict |-> NoVerdict,
     plateNumber |-> <<>>, items |-> <<>>, total |-> -1,
     limit |-> -1, offset |-> -1, safetyScore |-> -1,
     path |-> <<>>, tie |-> "None"]

\* a response that carries an error and, for some, a reason
ErrorResponse(stage, code, error, reason) ==
    [NoResponse EXCEPT !.stage = stage, !.code = code, !.error = error,
                       !.reason = reason]

IdleSess ==
    [ip |-> "None", plate_number |-> <<>>,
     current_user |-> "None", user |-> NoRow, is_new |-> FALSE]

\* the worker answers and its session is removed (teardown rolls back
\* whatever was not committed)
Reply(p, response) ==
    /\ last' = response
    /\ pc' = [pc EXCEPT ![p] = "idle"]
    /\ sess' = [sess EXCEPT ![p] = IdleSess]

\* the worker goes on to the next stage without answering
Goto(p, stage, s) ==
    /\ last' = NoResponse
    /\ pc' = [pc EXCEPT ![p] = stage]
    /\ sess' = [sess EXCEPT ![p] = s]

(***************************************************************************)
(* submit_report, src/files/backend.py                                     *)
(***************************************************************************)
\* lines 257-305: optional_auth, the required fields, the plate grammar, the
\* lookup of the account and the ban check. A request goes to the first free
\* worker; the model holds at most MaxReports reports.
Begin(p, cred, ip, data) ==
    /\ pc[p] = "idle"
    /\ \A q \in Procs : q < p => pc[q] # "idle"
    /\ Len(reports) + Cardinality({q \in Procs : pc[q] # "idle"}) < MaxReports
    /\ UNCHANGED <<now, users, reports, client, archive, units>>
    /\ LET current_user == optional_auth(cred)
           plate_number == upper(data.plateNumber)
           s == [ip |-> ip, plate_number |-> plate_number,
                 current_user |-> current_user, user |-> NoRow,
                 is_new |-> FALSE]
       IN  IF MissingField(data) # "None"
           THEN Reply(p, ErrorResponse("validate", 400,
                         "Missing required field", MissingField(data)))
           ELSE IF ~validate_plate_number(plate_number)
           THEN Reply(p, ErrorResponse("validate", 400,
                         "Invalid Kerala plate number format", "None"))
           ELSE IF current_user = "None"
           THEN Goto(p, "dup", s)
           ELSE IF ~users[current_user].exists
           THEN Goto(p, "flush", s)
           ELSE IF users[current_user].is_banned
           THEN Reply(p, ErrorResponse("ban", 403,
                         "Your account has been suspended",
                         users[current_user].ban_reason))
           ELSE Goto(p, "dup", [s EXCEPT !.user = users[current_user]])

\* another session holds an uncommitted INSERT of the same firebase_uid: the
\* unique index makes this INSERT wait for that transaction to end
InsertBlocked(p, uid) ==
    \E q \in Procs \ {p} : sess[q].is_new /\ sess[q].current_user = uid

\* lines 283-292: db.session.add(user); db.session.flush(). ok = FALSE is a
\* database error (a lock timeout, a lost connection): line 376 answers 500.
\* The new account is not banned, so line 295 lets it pass.
Flush(p, ok) ==
    /\ pc[p] = "flush"
    /\ UNCHANGED <<now, users, reports, client, archive, units>>
    /\ LET uid == sess[p].current_user IN
       IF ~ok
       THEN Reply(p, ErrorResponse("flush", 500, "OperationalError", "None"))
       ELSE /\ ~InsertBlocked(p, uid)
            /\ IF users[uid].exists
               THEN Reply(p, ErrorResponse("flush", 500, "IntegrityError",
                                           "None"))
               ELSE Goto(p, "dup", [sess[p] EXCEPT !.user = NewUser(uid),
                                                   !.is_new = TRUE])

\* variant of DupCheck that inserts the Report before it counts, and so
\* stores the refused one: C15_FailsClosed tells the two apart
DupCheckAfterInsert(p) ==
    /\ pc[p] = "dup"
    /\ UNCHANGED <<now, users, client, archive, units>>
    /\ LET duplicate_count ==
               check_duplicate_reports(sess[p].plate_number,
                   sess[p].user.id, sess[p].ip,
                   sess[p].current_user # "None", now)
       IN  IF duplicate_count >= DuplicateLimit
           THEN /\ reports' = Append(reports,
                       [NewReport(sess[p].plate_number, sess[p].user.id,
                                  sess[p].ip) EXCEPT !.created_at = now])
                /\ Reply(p, ErrorResponse("dup", 429,
                         "You have already reported this vehicle multiple times today",
                         "duplicate_prevention"))
           ELSE /\ reports' = reports
                /\ Goto(p, "moderating", sess[p])

\* lines 307-317: the duplicate guard
DupCheck(p) ==
    /\ pc[p] = "dup"
    /\ UNCHANGED <<now, users, reports, client, archive, units>>
    /\ LET duplicate_count ==
               check_duplicate_reports(sess[p].plate_number,
                   sess[p].user.id, sess[p].ip,
                   sess[p].current_user # "None", now)
       IN  IF duplicate_count >= DuplicateLimit
           THEN Reply(p, ErrorResponse("dup", 429,
                         "You have already reported this vehicle multiple times today",
                         "duplicate_prevention"))
           ELSE Goto(p, "moderating", sess[p])

\* variant of CommitUser that writes every attribute of the local object:
\* C9_BanIsPermanent tells the two apart
CommitUserWholeRow(committed, loaded, local, is_new) == local

\* the UPDATE of a loaded row sets the attributes whose value changed since
\* the load; a new row is written whole
CommitUser(committed, loaded, local, is_new) ==
    IF is_new THEN local
    ELSE [a \in DOMAIN committed |->
             IF local[a] # loaded[a] THEN local[a] ELSE committed[a]]

\* the rows of table users after the commit of worker p, whose moderation
\* verdict is v
CommitUsers(p, v) ==
    IF sess[p].current_user # "None"
    THEN [users EXCEPT ![sess[p].current_user] =
             CommitUser(@, sess[p].user,
                        update_stats(sess[p].user, v.approved),
                        sess[p].is_new)]
    ELSE users

\* variant of BuildReport that records the caller's address on every Report,
\* also on those of an account: C14_OneReporterIdentity tells the two apart
BuildReportWithAddress(p, v, t) ==
    LET authenticated == sess[p].current_user # "None" IN
    [set_moderation(
         NewReport(sess[p].plate_number,
                   IF authenticated THEN sess[p].user.id ELSE 0,
                   sess[p].ip),
         v, t)
     EXCEPT !.created_at = t]

\* lines 319-346: the Report object of worker p with its verdict; created_at
\* is the column default, taken when the row is inserted
BuildReport(p, v, t) ==
    LET authenticated == sess[p].current_user # "None" IN
    [set_moderation(
         NewReport(sess[p].plate_number,
                   IF authenticated THEN sess[p].user.id ELSE 0,
                   IF authenticated THEN "None" ELSE sess[p].ip),
         v, t)
     EXCEPT !.created_at = t]

\* variant of CommitWrites that commits the Report without the account
\* changes: C10_CommitAtomic tells the two apart
CommitReportOnly(p, v) ==
    /\ reports' = Append(reports, BuildReport(p, v, now))
    /\ users' = users

\* variant of CommitWrites that stores approved Reports only:
\* C16_OutcomeMatchesStore tells the two apart
CommitApprovedOnly(p, v) ==
    /\ reports' = IF v.approved
                  THEN Append(reports, BuildReport(p, v, now))
                  ELSE reports
    /\ users' = CommitUsers(p, v)

\* db.session.add(report); db.session.commit(): the Report and the account
\* changes are written in one transaction
CommitWrites(p, v) ==
    /\ reports' = Append(reports, BuildReport(p, v, now))
    /\ users' = CommitUsers(p, v)

\* lines 319-381: the moderation call returns, set_moderation, update_stats,
\* db.session.add(report), db.session.commit(). ok = FALSE: the commit raises
\* and line 377 rolls back.
Finish(p, outcome, ok) ==
    /\ pc[p] = "moderating"
    /\ UNCHANGED <<now, client, archive, units>>
    /\ LET v == moderate_report_with_ai(outcome)
           r == [NoResponse EXCEPT !.stage = "commit", !.moderated = TRUE,
                                   !.outcome = outcome, !.verdict = v]
       IN  IF ~ok
           THEN /\ UNCHANGED <<users, reports>>
                /\ Reply(p, [r EXCEPT !.code = 500,
                                      !.error = "OperationalError"])
           ELSE /\ CommitWrites(p, v)
                /\ IF v.approved
                   THEN Reply(p, [r EXCEPT !.code = 201,
                                           !.reportId = Len(reports) + 1,
                                           !.confidence = v.confidence])
                   ELSE Reply(p, [r EXCEPT !.code = 400,
                                           !.error = "Report rejected by AI moderation",
                                           !.reason = v.reason,
                                           !.flags = v.flags])

(***************************************************************************)
(* register_user, src/files/backend.py                                     *)
(***************************************************************************)
\* lines 52-100: 401 without a valid token; else the account's display_name
\* is set from the token, or the account is created; ok = FALSE: the commit
\* raises, rollback.
register_user(cred, ok) ==
    /\ UNCHANGED <<now, reports, pc, sess, client, archive, units>>
    /\ last' = NoResponse
    /\ LET uid == IF cred = "none" THEN "None" ELSE verify_firebase_token(cred)
       IN  IF uid = "None" \/ ~ok
           THEN UNCHANGED users
           ELSE IF users[uid].exists
           THEN users' = [users EXCEPT ![uid].display_name = TokenName(uid)]
           ELSE /\ \A q \in Procs :
                      ~(sess[q].is_new /\ sess[q].current_user = uid)
                /\ users' = [users EXCEPT ![uid] = NewUser(uid)]

(***************************************************************************)
(* submit_report of the variant endpoint, src/backend.py: no credentials,  *)
(* no accounts; the reporter is written to column user_id                  *)
(***************************************************************************)
\* the userId of a body; "None": the body has no such key
VariantUserIds == {"None", "u2"}

VariantBody(plateNumber, violations, location, userId) ==
    [plateNumber |-> plateNumber, violations |-> violations,
     location |-> location, userId |-> userId]

VariantBodies ==
    { VariantBody(PlateUpper, <<"no_helmet">>, "MG Road", userId) :
          userId \in VariantUserIds }
    \cup { VariantBody(PlateBad, <<"no_helmet">>, "MG Road", "None"),
           VariantBody(PlateUpper, <<"no_helmet">>, "", "None") }

\* line 181: user_id = data.get('userId', request.remote_addr)
VariantIdentity(ip, data) ==
    IF data.userId # "None" THEN data.userId ELSE ip

\* lines 150-160: check_duplicate_reports(plate_number, user_id)
variant_check_duplicate_reports(plate_number, user_id, t) ==
    Cardinality({ i \in 1..Len(reports) :
        /\ reports[i].plate_number = plate_number
        /\ reports[i].user_id = user_id
        /\ reports[i].created_at >= t - time_window_hours })

\* lines 163-238: the whole handler; ok = FALSE: the commit raises
variant_submit_report(ip, data, outcome, ok) ==
    /\ Len(reports) < MaxReports
    /\ UNCHANGED <<now, users, pc, sess, client, archive, units>>
    /\ LET plate_number == upper(data.plateNumber)
           user_id == VariantIdentity(ip, data)
           duplicate_count ==
               variant_check_duplicate_reports(plate_number, user_id, now)
           v == moderate_report_with_ai(outcome)
           report == [set_moderation(NewReport(plate_number, user_id, "None"),
                                     v, now)
                      EXCEPT !.created_at = now]
           r == [NoResponse EXCEPT !.stage = "commit", !.moderated = TRUE,
                                   !.outcome = outcome, !.verdict = v]
       IN  IF MissingField(data) # "None"
           THEN /\ reports' = reports
                /\ last' = ErrorResponse("validate", 400,
                               "Missing required field", MissingField(data))
           ELSE IF ~validate_plate_number(plate_number)
           THEN /\ reports' = reports
                /\ last' = ErrorResponse("validate", 400,
                               "Invalid Kerala plate number format", "None")
           ELSE IF duplicate_count >= DuplicateLimit
           THEN /\ reports' = reports
                /\ last' = ErrorResponse("dup", 429,
                               "You have already reported this vehicle multiple times today",
                               "duplicate_prevention")
           ELSE IF ~ok
           THEN /\ reports' = reports
                /\ last' = [r EXCEPT !.code = 500,
                                     !.error = "OperationalError"]
           ELSE /\ reports' = Append(reports, report)
                /\ last' = IF v.approved
                           THEN [r EXCEPT !.code = 201,
                                          !.reportId = Len(reports) + 1,
                                          !.confidence = v.confidence]
                           ELSE [r EXCEPT !.code = 400,
                                          !.error = "Report rejected by AI moderation",
                                          !.reason = v.reason,
                                          !.flags = v.flags]

(***************************************************************************)
(* The clock                                                               *)
(***************************************************************************)
\* The moderation call is the one step of a request that takes wall-clock
\* time: the clock advances between requests and during that call.
Tick(d) ==
    /\ now + d <= Horizon
    /\ \A p \in Procs : pc[p] \in {"idle", "moderating"}
    /\ now' = now + d
    /\ UNCHANGED <<users, reports, pc, sess, client, archive, units>>
    /\ last' = NoResponse

(***************************************************************************)
(* The read endpoints, src/files/backend.py and Report.to_dict             *)
(***************************************************************************)
NoReporter == [displayName |-> "None", reputationScore |-> -1]

\* models.py lines 50-78: the Report with primary key id as the response
\* shows it. The address of an anonymous reporter is not part of it; 'user'
\* is filled from the account the Report belongs to, if any.
to_dict(id) ==
    LET r == reports[id]
        reporter == { uid \in Uids :
                        users[uid].exists /\ users[uid].id = r.user_id }
    IN  [id |-> id,
         plateNumber |-> r.plate_number,
         user |-> IF reporter = {} THEN NoReporter
                  ELSE LET u == users[CHOOSE uid \in reporter : TRUE]
                       IN  [displayName |-> u.display_name,
                            reputationScore |-> u.reputation_score],
         status |-> r.status,
         moderation |-> [approved |-> r.moderation_approved,
                         reason |-> r.moderation_reason,
                         confidence |-> r.moderation_confidence,
                         flags |-> r.moderation_flags,
                         reviewedAt |-> r.moderation_reviewed_at],
         timestamp |-> r.created_at]

\* the database is free to give rows of equal created_at in either order of
\* their primary keys
Ties == {"asc", "desc"}

\* order_by(Report.created_at.desc()) over the rows ids
OrderedDesc(ids, tie) ==
    LET Before(j, i) ==
            \/ reports[j].created_at > reports[i].created_at
            \/ /\ reports[j].created_at = reports[i].created_at
               /\ IF tie = "desc" THEN j > i ELSE j < i
        rank == [i \in ids |-> 1 + Cardinality({ j \in ids : Before(j, i) })]
    IN  [k \in 1..Cardinality(ids) |-> CHOOSE i \in ids : rank[i] = k]

\* variant of ApprovedIds without the status filter:
\* C22_ReadsExposeApprovedOnly tells the two apart
AllStoredIds == 1..Len(reports)

\* line 391: Report.query.filter_by(status='approved')
ApprovedIds == { i \in 1..Len(reports) : reports[i].status = "approved" }

\* lines 409-412: filter_by(plate_number=plate_number, status='approved')
ApprovedIdsOfPlate(plate_number) ==
    { i \in 1..Len(reports) : /\ reports[i].plate_number = plate_number
                              /\ reports[i].status = "approved" }

\* variant of SafetyScore without the floor: C24_SafetyScore tells the two
\* apart
SafetyScoreUnfloored(count) == 100 - (count * 10)

\* line 426: max(0, 100 - (len(plate_reports) * 10))
SafetyScore(count) == Max(0, 100 - (count * 10))

\* lines 384-401: GET /api/reports?limit=..&offset=..
get_reports(limit, offset, tie) ==
    /\ UNCHANGED <<now, users, reports, pc, sess, client, archive, units>>
    /\ LET reports_query == OrderedDesc(ApprovedIds, tie)
           total == Len(reports_query)
           paginated_reports ==
               SubSeq(reports_query, offset + 1, Min(offset + limit, total))
       IN  last' = [NoResponse EXCEPT
                       !.stage = "get_reports", !.code = 200,
                       !.items = [k \in 1..Len(paginated_reports) |->
                                     to_dict(paginated_reports[k])],
                       !.total = total, !.limit = limit, !.offset = offset,
                       !.tie = tie]

\* lines 404-427: GET /api/reports/plate/<plate_number>. The histogram of
\* violations is left out: the model's Report does not hold its violations.
get_reports_by_plate(path, tie) ==
    /\ UNCHANGED <<now, users, reports, pc, sess, client, archive, units>>
    /\ LET plate_number == upper(path)
           plate_reports == OrderedDesc(ApprovedIdsOfPlate(plate_number), tie)
       IN  last' = [NoResponse EXCEPT
                       !.stage = "get_reports_by_plate", !.code = 200,
                       !.plateNumber = plate_number,
                       !.total = Len(plate_reports),
                       !.items = [k \in 1..Len(plate_reports) |->
                                     to_dict(plate_reports[k])],
                       !.safetyScore = SafetyScore(Len(plate_reports)),
                       !.path = path, !.tie = tie]

(***************************************************************************)
(* The adjudicator and the ledger called on their own                      *)
(***************************************************************************)
Tokens == {"x", "{", "}"} \cup MemberTokens

\* every text of at most MaxTextLen tokens
Texts == UNION {[1..n -> Tokens] : n \in 0..MaxTextLen}

AdjOutcomes == {Raised} \cup {Returned(t) : t \in Texts}

\* report: the Report the verdict is set on
AdjCall(outcome) ==
    [outcome |-> outcome, done |-> FALSE, verdict |-> NoVerdict,
     report |-> NewReport(PlateUpper, 0, "ip1")]

NoAdj == AdjCall(NoOutcome)

\* is_approved, reason, confidence, flags = moderate_report_with_ai(...);
\* report.set_moderation(is_approved, reason, confidence, flags)
Adjudicate ==
    /\ ~adj.done
    /\ LET v == moderate_report_with_ai(adj.outcome) IN
       adj' = [adj EXCEPT !.done = TRUE, !.verdict = v,
                          !.report = set_moderation(@, v, now)]
    /\ UNCHANGED <<now, users, reports, pc, sess, client, archive, last, ledger, validation>>

\* the accounts update_stats is called on: every reputation from 0.0 to 100.0
\* in half points, banned or not, with small counters
AccountStates ==
    { [NewUser("uidA") EXCEPT !.total_reports = a + r,
                              !.approved_reports = a,
                              !.rejected_reports = r,
                              !.reputation_score = score,
                              !.is_banned = b,
                              !.ban_reason = IF b THEN BanReasonText
                                                  ELSE "None"] :
        a \in 0..MaxCounter, r \in 0..MaxCounter,
        score \in RepMin..RepMax, b \in BOOLEAN }

LedgerCall(u) ==
    [before |-> u, approved |-> FALSE, after |-> u, done |-> FALSE]

NoLedger == LedgerCall(NoRow)

\* user.update_stats(approved)
RecordOutcome(approved) ==
    /\ ~ledger.done
    /\ ledger' = [ledger EXCEPT !.done = TRUE, !.approved = approved,
                                !.after = update_stats(ledger.before, approved)]
    /\ UNCHANGED <<now, users, reports, pc, sess, client, archive, last, adj, validation>>

\* the characters put before and after a plate: prose and the line feed
PadChars == {"x", "\n"}

Pads == UNION {[1..n -> PadChars] : n \in 0..MaxPad}

\* the strings the validator is called on: a region, two groups of digits and
\* a group of letters, each of them of a right or a wrong length or alphabet,
\* joined by hyphens, with padding before and after
PlateInputs ==
    { pre \o region \o <<"-">> \o dd \o <<"-">> \o ll \o <<"-">> \o dddd \o post :
        pre \in Pads, post \in Pads,
        region \in { <<"K","L">>, <<"k","l">>, <<"K","A">> },
        dd \in { <<"0">>, <<"0","7">>, <<"0","7","1">>, <<"0","A">> },
        ll \in { <<>>, <<"A">>, <<"a","b">>, <<"A","B","C">>, <<"7">> },
        dddd \in { <<>>, <<"1">>, <<"1","2","3","4">>,
                   <<"1","2","3","4","5">>, <<"1","x">> } }

PlateCall(input) ==
    [input |-> input, done |-> FALSE, plate_number |-> <<>>,
     accepted |-> FALSE]

NoPlate == PlateCall(<<>>)

\* plate_number = data['plateNumber'].upper();
\* validate_plate_number(plate_number)
ValidatePlate ==
    /\ ~validation.done
    /\ LET plate_number == upper(validation.input) IN
       validation' = [validation EXCEPT
                         !.done = TRUE,
                         !.plate_number = plate_number,
                         !.accepted = validate_plate_number(plate_number)]
    /\ UNCHANGED <<now, users, reports, pc, sess, client, archive, last, adj, ledger>>

(***************************************************************************)
(* Specifications                                                          *)
(***************************************************************************)
\* The account of uidA as it stands after 42 reports, 40 of them rejected
\* and 2 approved: reputation 100.0 - 40 * 2.0 + 2 * 0.5 = 21.0.
SeasonedUser ==
    [NewUser("uidA") EXCEPT !.total_reports = 42,
                            !.approved_reports = 2,
                            !.rejected_reports = 40,
                            !.reputation_score = 42,
                            !.display_name = "name1"]

\* One client per run: anonymous, with a token the verifier rejects, or with
\* the token of uidA, who holds the seasoned account or has never been seen.
Init ==
    /\ now = 0
    /\ client \in Creds
    /\ users \in {[uid \in Uids |-> SeasonedUser], [uid \in Uids |-> NoRow]}
    /\ client \notin Uids => users = [uid \in Uids |-> NoRow]
    /\ archive = [uid \in Uids |-> users[uid].total_reports]
    /\ reports = <<>>
    /\ pc = [p \in Procs |-> "idle"]
    /\ sess = [p \in Procs |-> IdleSess]
    /\ last = NoResponse
    /\ adj = NoAdj
    /\ ledger = NoLedger
    /\ validation = NoPlate

AllIdle == \A p \in Procs : pc[p] = "idle"

Next ==
    \/ \E p \in Procs, ip \in Ips, data \in Bodies : Begin(p, client, ip, data)
    \/ \E p \in Procs, ok \in BOOLEAN : Flush(p, ok)
    \/ \E p \in Procs : DupCheck(p)
    \/ \E p \in Procs, outcome \in PipelineOutcomes, ok \in BOOLEAN :
           Finish(p, outcome, ok)
    \/ \E ok \in BOOLEAN : register_user(client, ok)
    \/ \E d \in TickSteps : Tick(d)

Spec == Init /\ [][Next]_vars

\* the same workers, one request at a time
NextSeq ==
    \/ \E p \in Procs, ip \in Ips, data \in Bodies :
           AllIdle /\ Begin(p, client, ip, data)
    \/ \E p \in Procs, ok \in BOOLEAN : Flush(p, ok)
    \/ \E p \in Procs : DupCheck(p)
    \/ \E p \in Procs, outcome \in SeqOutcomes, ok \in BOOLEAN :
           Finish(p, outcome, ok)
    \/ \E ok \in BOOLEAN : AllIdle /\ register_user(client, ok)
    \/ \E d \in TickSteps : Tick(d)

SpecSeq == Init /\ [][NextSeq]_vars

\* the store is empty and idle; one call of the adjudicator or of the ledger
InitUnit ==
    /\ now = 0
    /\ client = "none"
    /\ users = [uid \in Uids |-> NoRow]
    /\ archive = [uid \in Uids |-> 0]
    /\ reports = <<>>
    /\ pc = [p \in Procs |-> "idle"]
    /\ sess = [p \in Procs |-> IdleSess]
    /\ last = NoResponse

InitAdjudicate ==
    /\ InitUnit
    /\ adj \in {AdjCall(o) : o \in AdjOutcomes}
    /\ ledger = NoLedger
    /\ validation = NoPlate

SpecAdjudicate == InitAdjudicate /\ [][Adjudicate]_vars

InitLedger ==
    /\ InitUnit
    /\ adj = NoAdj
    /\ ledger \in {LedgerCall(u) : u \in AccountStates}
    /\ validation = NoPlate

NextLedger == \E approved \in BOOLEAN : RecordOutcome(approved)

SpecLedger == InitLedger /\ [][NextLedger]_vars

\* the variant endpoint, one request at a time
InitVariant ==
    /\ InitUnit
    /\ adj = NoAdj
    /\ ledger = NoLedger
    /\ validation = NoPlate

NextVariant ==
    \/ \E ip \in Ips, data \in VariantBodies, outcome \in PipelineOutcomes,
          ok \in BOOLEAN :
           variant_submit_report(ip, data, outcome, ok)
    \/ \E d \in TickSteps : Tick(d)

SpecVariant == InitVariant /\ [][NextVariant]_vars

InitPlate ==
    /\ InitUnit
    /\ adj = NoAdj
    /\ ledger = NoLedger
    /\ validation \in {PlateCall(input) : input \in PlateInputs}

SpecPlate == InitPlate /\ [][ValidatePlate]_vars

PlateMixed == << "K","l","-","0","7","-","a","-","1" >>

PlateOther == << "K","L","-","0","1","-","B","-","2" >>

\* the plates a lookup names in its path
PlatePaths == {PlateUpper, PlateLower, PlateMixed, PlateOther}

\* a Report as an anonymous submission of the plate at time t leaves it in
\* the store, approved or rejected
StoredReport(plate_number, approved, t) ==
    LET outcome == IF approved
                   THEN Returned(<<"x", "{", "approved:true", "}">>)
                   ELSE Returned(<<"{", "approved:false", "flags:[spam]", "}">>)
    IN  [set_moderation(NewReport(plate_number, 0, "ip1"),
                        moderate_report_with_ai(outcome), t)
         EXCEPT !.created_at = t]

\* the hours between two submissions of the stores below: the duplicate
\* guard lets them all pass
StoreSpacing == time_window_hours \div 2

\* The store after anonymous submissions that came one at a time, one every
\* StoreSpacing hours for each plate: first r rejected and then a approved
\* Reports of PlateUpper, and o approved Reports of PlateOther, each of these
\* in the same hour as one of PlateUpper.
RECURSIVE StoreFrom(_, _, _, _)
StoreFrom(k, a, r, o) ==
    IF k > Max(a + r, o) THEN <<>>
    ELSE (IF k <= a + r
          THEN <<StoredReport(PlateUpper, k > r, StoreSpacing * k)>>
          ELSE <<>>)
         \o (IF k <= o
             THEN <<StoredReport(PlateOther, TRUE, StoreSpacing * k)>>
             ELSE <<>>)
         \o StoreFrom(k + 1, a, r, o)

Stores ==
    { StoreFrom(1, a, r, o) :
        a \in 0..MaxApproved, r \in 0..MaxRejected, o \in 0..MaxOther }

\* limit and offset of a listing: limit defaults to 10, offset to 0
Limits == {0, 2, DefaultLimit}

Offsets == {0, 1, DefaultLimit + 2}

\* a store of anonymous Reports, read by the two read endpoints
InitRead ==
    /\ reports \in Stores
    /\ now = IF reports = <<>> THEN 0 ELSE reports[Len(reports)].created_at
    /\ client = "none"
    /\ users = [uid \in Uids |-> NoRow]
    /\ archive = [uid \in Uids |-> 0]
    /\ pc = [p \in Procs |-> "idle"]
    /\ sess = [p \in Procs |-> IdleSess]
    /\ last = NoResponse
    /\ adj = NoAdj
    /\ ledger = NoLedger
    /\ validation = NoPlate

\* a read leaves the store as it is: what a second read answers is what it
\* answers as the first, so a run makes one
NextRead ==
    \/ \E limit \in Limits, offset \in Offsets, tie \in Ties :
           last = NoResponse /\ get_reports(limit, offset, tie)
    \/ \E path \in PlatePaths, tie \in Ties :
           last = NoResponse /\ get_reports_by_plate(path, tie)

SpecRead == InitRead /\ [][NextRead]_vars

\* what the moderation service answers to the anonymous client: an approval
\* with a confidence of 1.7, or a rejection
AnonOutcomes ==
    { Returned(<<"{", "approved:true", "confidence:1.7", "}">>),
      Returned(<<"{", "approved:false", "flags:[spam]", "}">>) }

\* One anonymous client per run, who writes the plate in one letter case
\* (validation.input) and sends one request at a time: submissions and
\* lookups by plate. A lookup leaves the store as it is, so a lookup that
\* follows a lookup is left out.
InitAnon ==
    /\ now = 0
    /\ client = "none"
    /\ users = [uid \in Uids |-> NoRow]
    /\ archive = [uid \in Uids |-> 0]
    /\ reports = <<>>
    /\ pc = [p \in Procs |-> "idle"]
    /\ sess = [p \in Procs |-> IdleSess]
    /\ last = NoResponse
    /\ adj = NoAdj
    /\ ledger = NoLedger
    /\ validation \in {PlateCall(PlateLower), PlateCall(PlateUpper)}

NextAnon ==
    \/ \E p \in Procs, ip \in Ips :
           /\ AllIdle
           /\ Begin(p, client, ip,
                    Body(validation.input, <<"no_helmet">>, "MG Road"))
    \/ \E p \in Procs : DupCheck(p)
    \/ \E p \in Procs, outcome \in AnonOutcomes, ok \in BOOLEAN :
           Finish(p, outcome, ok)
    \/ \E path \in PlatePaths \ {PlateOther}, tie \in Ties :
           /\ AllIdle
           /\ last.stage # "get_reports_by_plate"
           /\ get_reports_by_plate(path, tie)
    \/ \E d \in TickSteps : Tick(d)

SpecAnon == InitAnon /\ [][NextAnon]_vars

\* More than time_window_hours pass without a request: the stored Reports
\* fall out of every window to come. The run goes on with them counted in
\* the archive and with its clock, and the ids of its Reports, starting
\* again.
Retire ==
    /\ AllIdle
    /\ reports # <<>>
    /\ archive' = [uid \in Uids |->
                      archive[uid] + Cardinality({ i \in 1..Len(reports) :
                          /\ users[uid].exists
                          /\ reports[i].user_id = users[uid].id })]
    /\ reports' = <<>>
    /\ last' = NoResponse
    /\ UNCHANGED <<now, users, pc, sess, client, units>>

\* what the moderation service does over the life of an account: it fails,
\* it rejects, or it approves
CareerOutcomes ==
    { Raised,
      Returned(<<"{", "approved:false", "flags:[spam]", "}">>),
      Returned(<<"x", "{", "approved:true", "}">>) }

\* The holder of uidA has never been seen.
InitCareer ==
    /\ now = 0
    /\ client = "uidA"
    /\ users = [uid \in Uids |-> NoRow]
    /\ archive = [uid \in Uids |-> 0]
    /\ reports = <<>>
    /\ pc = [p \in Procs |-> "idle"]
    /\ sess = [p \in Procs |-> IdleSess]
    /\ last = NoResponse
    /\ adj = NoAdj
    /\ ledger = NoLedger
    /\ validation = NoPlate

\* The account from its creation on: its holder sends one request at a
\* time, and the next one more than a window after a Report was stored, up
\* to MaxCareer reports.
NextCareer ==
    \/ \E p \in Procs, ip \in Ips :
           /\ AllIdle
           /\ reports = <<>>
           /\ users[client].total_reports < MaxCareer
           /\ Begin(p, client, ip, Body(PlateUpper, <<"no_helmet">>, "MG Road"))
    \/ \E p \in Procs, ok \in BOOLEAN : Flush(p, ok)
    \/ \E p \in Procs : DupCheck(p)
    \/ \E p \in Procs, outcome \in CareerOutcomes, ok \in BOOLEAN :
           Finish(p, outcome, ok)
    \/ Retire

SpecCareer == InitCareer /\ [][NextCareer]_vars

(***************************************************************************)
(* Properties                                                              *)
(***************************************************************************)
\* the stored reports of the reporter and plate of worker p's request that
\* are at most 24 hours old at time t: the reporter is the account when the
\* request is authenticated, the caller's address when it is not
RecentOf(p, t) ==
    { i \in 1..Len(reports) :
        /\ reports[i].plate_number = sess[p].plate_number
        /\ \/ sess[p].current_user # "None"
              /\ reports[i].user_id = UserId(sess[p].current_user)
           \/ sess[p].current_user = "None"
              /\ reports[i].user_ip = sess[p].ip
        /\ t - reports[i].created_at <= 24 }

\* C1: with requests handled one at a time, a submission passes the duplicate
\* guard exactly when fewer than three stored reports of its reporter and
\* plate are at most 24 hours old (a report exactly 24 hours old counts);
\* otherwise it is answered 429 with reason duplicate_prevention and nothing
\* is stored. Hence the first three submissions pass, the fourth within the
\* window is refused, and it passes again once fewer than three remain.
C1_DuplicateGuardSequential ==
    [][\A p \in Procs :
          (pc[p] = "dup" /\ pc'[p] # "dup") =>
              IF Cardinality(RecentOf(p, now)) >= 3
              THEN /\ last'.code = 429
                   /\ last'.reason = "duplicate_prevention"
                   /\ pc'[p] = "idle"
                   /\ reports' = reports
                   /\ users' = users
              ELSE /\ pc'[p] = "moderating"
                   /\ last'.code = 0]_vars

\* C1 witness: the fourth submission, made when the three stored reports are
\* exactly 24 hours old, has just been answered 429
C1_Witness ==
    /\ last.code = 429
    /\ last.stage = "dup"
    /\ now = 24
    /\ Len(reports) = 3
    /\ \A i \in 1..3 : reports[i].created_at = 0

\* two stored reports are of the same reporter and plate
SameReporterAndPlate(r1, r2) ==
    /\ r1.plate_number = r2.plate_number
    /\ r1.user_id = r2.user_id
    /\ r1.user_ip = r2.user_ip

\* C2: in every state, for every reporter and plate, no 24-hour window holds
\* more than three stored reports (count-and-insert is atomic).
C2_AtMostThreePerWindow ==
    \A i \in 1..Len(reports) :
        Cardinality({ j \in 1..Len(reports) :
            /\ SameReporterAndPlate(reports[i], reports[j])
            /\ reports[j].created_at >= reports[i].created_at
            /\ reports[j].created_at <= reports[i].created_at + 24 }) <= 3

\* C3: a submission whose bearer credential the verifier rejects is never
\* processed: no report is ever stored for it.
C3_InvalidCredentialStoresNothing == client = "bad" => reports = <<>>

\* C4: a submission made with the credential of a banned account is answered
\* with the ban error and the stored ban reason, whatever its body holds
\* (the answer comes before any validation).
C4_BannedAlwaysBanError ==
    ( /\ client \in Uids
      /\ users[client].exists
      /\ users[client].is_banned
      /\ last.stage \in {"validate", "ban"} )
    => (last.code = 403 /\ last.reason = users[client].ban_reason)

\* the moderation call of the request just answered raised
ModerationRaised == last.moderated /\ last.outcome.raises

\* the verdict of the except branch
IsFailSafeVerdict(v) ==
    v.approved = TRUE /\ v.confidence = 30 /\ v.flags = <<"ai_error">>

\* the report the answer names is stored as approved with the verdict v
StoredApproved(v) ==
    /\ last.reportId \in 1..Len(reports)
    /\ reports[last.reportId].status = "approved"
    /\ reports[last.reportId].moderation_approved = TRUE
    /\ reports[last.reportId].moderation_confidence = v.confidence
    /\ reports[last.reportId].moderation_flags = v.flags

\* C5 as claimed: whenever the moderation call raises, the verdict is
\* approved=true, confidence=0.3, flags=["ai_error"], the report is stored as
\* approved and the submission is answered with success.
C5_RaiseAlwaysSuccess ==
    ModerationRaised =>
        /\ IsFailSafeVerdict(last.verdict)
        /\ last.code = 201
        /\ StoredApproved(last.verdict)

\* C5 as amended: whenever the moderation call raises, the verdict is
\* approved=true, confidence=0.3, flags=["ai_error"]; the report is stored as
\* approved and the submission is answered with success (201, confidence
\* 0.3), unless the commit itself fails, which is answered 500.
C5_RaiseFailsSafe ==
    ModerationRaised =>
        /\ IsFailSafeVerdict(last.verdict)
        /\ \/ /\ last.code = 201
              /\ last.confidence = 30
              /\ StoredApproved(last.verdict)
           \/ /\ last.code = 500
              /\ last.stage = "commit"
              /\ last.error = "OperationalError"

\* C5 witness: a submission whose moderation call raised was answered 201
C5_Witness == ModerationRaised /\ last.code = 201 /\ Len(reports) >= 1

\* no "{" of the text has a "}" after it
NoObjectLocated(text) ==
    \A i \in 1..Len(text) : \A j \in (i + 1)..Len(text) :
        ~(text[i] = "{" /\ text[j] = "}")

ParsesToObject(text) ==
    /\ ~NoObjectLocated(text)
    /\ JsonValid(JsonMatch(text))

\* the values the token sequence holds for the given key
MembersOf(text, key) == { text[i] : i \in { k \in 1..Len(text) : MemberKey(text[k]) = key } }

\* C7: when the response parses to a JSON object, each verdict field is the
\* object's value for its key if the key is present and else its default:
\* approved=false, reason="AI moderation completed", confidence=0.5,
\* flags=[]; an object without the key approved gives a rejected report.
C7_ParsedDefaults ==
    (adj.done /\ ~adj.outcome.raises /\ ParsesToObject(adj.outcome.text)) =>
        LET text == JsonMatch(adj.outcome.text)
            v == adj.verdict
        IN  /\ IF MembersOf(text, "approved") = {}
               THEN v.approved = FALSE /\ adj.report.status = "rejected"
               ELSE (IF v.approved THEN "approved:true" ELSE "approved:false")
                        \in MembersOf(text, "approved")
            /\ v.reason = IF MembersOf(text, "reason") = {}
                          THEN "AI moderation completed" ELSE "spam report"
            /\ IF MembersOf(text, "confidence") = {}
               THEN v.confidence = 50
               ELSE (IF v.confidence = 90 THEN "confidence:0.9"
                     ELSE IF v.confidence = 170 THEN "confidence:1.7"
                     ELSE "none") \in MembersOf(text, "confidence")
            /\ v.flags = IF MembersOf(text, "flags") = {}
                         THEN <<>> ELSE <<"spam">>
            /\ adj.report.status = IF v.approved THEN "approved" ELSE "rejected"

\* C7 witness: an object with a confidence and no approved key is rejected
C7_Witness ==
    /\ adj.done
    /\ adj.outcome = Returned(<<"{", "confidence:0.9", "}">>)
    /\ adj.verdict.confidence = 90
    /\ adj.report.status = "rejected"

\* C8: update_stats on any account: totalReports + 1; on approval
\* approvedReports + 1 and reputation min(100.0, reputation + 0.5); on
\* rejection rejectedReports + 1 and reputation max(0.0, reputation - 2.0);
\* then, if the resulting reputation is below 20.0 and the account was not
\* banned, it is banned with a non-empty reason. (Reputation in half points.)
C8_RecordOutcome ==
    ledger.done =>
        LET b == ledger.before
            a == ledger.after
        IN  /\ a.total_reports = b.total_reports + 1
            /\ ledger.approved =>
                  /\ a.approved_reports = b.approved_reports + 1
                  /\ a.rejected_reports = b.rejected_reports
                  /\ a.reputation_score =
                         IF b.reputation_score + 1 > 200 THEN 200
                         ELSE b.reputation_score + 1
            /\ ~ledger.approved =>
                  /\ a.rejected_reports = b.rejected_reports + 1
                  /\ a.approved_reports = b.approved_reports
                  /\ a.reputation_score =
                         IF b.reputation_score - 4 < 0 THEN 0
                         ELSE b.reputation_score - 4
            /\ (a.reputation_score < 40 /\ ~b.is_banned) =>
                  /\ a.is_banned
                  /\ a.ban_reason \notin {"None", ""}

\* C8 witness: reputation 21.0, one rejection: 19.0 and banned
C8_Witness ==
    /\ ledger.done
    /\ ~ledger.approved
    /\ ledger.before.reputation_score = 42
    /\ ~ledger.before.is_banned
    /\ ledger.after.reputation_score = 38
    /\ ledger.after.is_banned
    /\ ledger.after.ban_reason = BanReasonText

\* banned accounts whose reputation one approval raises to 20.0 or above
BannedSamples ==
    { [SeasonedUser EXCEPT !.reputation_score = score, !.is_banned = TRUE,
                           !.ban_reason = BanReasonText] :
        score \in {0, 38, 39, 40, 200} }

\* C9: once an account is banned it is banned in every later state, whatever
\* the operation (submissions, register/login); and update_stats called on a
\* banned account leaves it banned, also when the reputation rises to 20.0
\* or above.
C9_BanIsPermanent ==
    [][/\ \A uid \in Uids :
              (users[uid].exists /\ users[uid].is_banned) =>
                  (users'[uid].exists /\ users'[uid].is_banned)
       /\ \A u \in BannedSamples, approved \in BOOLEAN :
              update_stats(u, approved).is_banned]_vars

\* C9 witness: a banned account whose reputation is back above 20.0
C9_Witness ==
    /\ users["uidA"].exists
    /\ users["uidA"].is_banned
    /\ users["uidA"].reputation_score > 40

\* C10: the commit of a submission writes all or nothing: either it is
\* answered 500 and the store is exactly as before, or the report of the
\* submission is stored together with the account changes made for it (the
\* counters and reputation computed from the loaded account, and the account
\* row itself when the submission created it); no other step of a submission
\* writes to the store.
C10_CommitAtomic ==
    [][/\ \A p \in Procs :
              (pc[p] = "moderating" /\ pc'[p] = "idle") =>
                  \/ /\ last'.code = 500
                     /\ reports' = reports
                     /\ users' = users
                  \/ /\ last'.code \in {201, 400}
                     /\ Len(reports') = Len(reports) + 1
                     /\ SubSeq(reports', 1, Len(reports)) = reports
                     /\ reports'[Len(reports')].status =
                            (IF last'.code = 201 THEN "approved" ELSE "rejected")
                     /\ IF sess[p].current_user = "None"
                        THEN /\ users' = users
                             /\ reports'[Len(reports')].user_id = 0
                        ELSE LET row == users'[sess[p].current_user]
                                 old == sess[p].user
                             IN  /\ row.exists
                                 /\ reports'[Len(reports')].user_id = row.id
                                 /\ row.total_reports = old.total_reports + 1
                                 /\ IF last'.code = 201
                                    THEN row.approved_reports
                                             = old.approved_reports + 1
                                    ELSE row.rejected_reports
                                             = old.rejected_reports + 1
       /\ (reports' # reports) =>
              \E p \in Procs : pc[p] = "moderating" /\ pc'[p] = "idle"
       /\ \A p \in Procs :
              sess[p].is_new => ~users[sess[p].current_user].exists]_vars

\* C10 witness: the commit of a submission that had created its account
\* failed: answered 500, no account row, no report
C10_Witness ==
    /\ last.code = 500
    /\ last.stage = "commit"
    /\ client \in Uids
    /\ ~users[client].exists
    /\ reports = <<>>

\* the reports stored for the account: those of before this run and those
\* in table reports that refer to it
StoredFor(uid) ==
    archive[uid]
        + Cardinality({ i \in 1..Len(reports) : reports[i].user_id = UserId(uid) })

\* C11: whenever no submission of an account is in flight (all of them have
\* committed), the account's totalReports equals the number of Reports stored
\* for it: no update of the counter is lost under concurrent submissions.
C11_NoLostUpdate ==
    \A uid \in Uids :
        ( /\ users[uid].exists
          /\ \A p \in Procs : sess[p].current_user # uid )
        => users[uid].total_reports = StoredFor(uid)

\* the other half of C11: no step makes a counter of an account smaller
C11_CountersNeverDecrease ==
    [][\A uid \in Uids :
          users[uid].exists =>
              /\ users'[uid].total_reports >= users[uid].total_reports
              /\ users'[uid].approved_reports >= users[uid].approved_reports
              /\ users'[uid].rejected_reports >= users[uid].rejected_reports]_vars

\* C12: while the moderation call of a request is in progress, the request's
\* database session holds no flushed, uncommitted write: all persistence of
\* the submission happens after the verdict is obtained.
C12_NoTransactionDuringModeration ==
    \A p \in Procs : pc[p] = "moderating" => ~sess[p].is_new

\* moderation.reviewedAt is set if and only if the status is not pending
ReviewedIffNotPending(r) ==
    (r.moderation_reviewed_at # -1) <=> (r.status # "pending")

\* C13: every Report, stored or newly constructed, has reviewedAt set if and
\* only if its status is not pending; a stored Report has the status its
\* verdict gave it (approved or rejected), and no later step changes a stored
\* Report.
C13_ReviewedIffModerated ==
    [][/\ ReviewedIffNotPending(NewReport(PlateUpper, 0, "ip1"))
       /\ \A i \in 1..Len(reports') :
              /\ ReviewedIffNotPending(reports'[i])
              /\ reports'[i].status =
                     (IF reports'[i].moderation_approved THEN "approved"
                                                          ELSE "rejected")
       /\ Len(reports') >= Len(reports)
       /\ \A i \in 1..Len(reports) : reports'[i] = reports[i]]_vars

\* C13 witness: a Report rejected at hour 0 is still stored, with the same
\* status and verdict time, a day and one more Report later
C13_Witness ==
    /\ now = 24
    /\ Len(reports) >= 2
    /\ reports[1].status = "rejected"
    /\ reports[1].moderation_reviewed_at = 0
    /\ reports[2].moderation_reviewed_at = 24

\* C14: every stored Report has exactly one reporter identity: the account
\* reference (user_id set, user_ip empty) when the submission was
\* authenticated, the caller's address (user_ip set, user_id empty) when it
\* was not; never both and never neither.
C14_OneReporterIdentity ==
    \A i \in 1..Len(reports) :
        IF client \in Uids
        THEN /\ reports[i].user_id = UserId(client)
             /\ reports[i].user_id # 0
             /\ reports[i].user_ip = "None"
        ELSE /\ reports[i].user_id = 0
             /\ reports[i].user_ip \in Ips
             /\ reports[i].user_ip # "None"

\* C14 witness: the first Report of a newly created account
C14_Witness ==
    /\ client \in Uids
    /\ archive[client] = 0
    /\ Len(reports) >= 1
    /\ reports[1].user_id = UserId(client)
    /\ users[client].total_reports = 1

\* the step answers with a validation error, the ban error or the
\* duplicate-limit error
GateRefuses ==
    \/ last'.stage = "validate" /\ last'.code = 400
    \/ last'.stage = "ban" /\ last'.code = 403
    \/ last'.stage = "dup" /\ last'.code = 429

\* C15: a submission answered with a validation error, the ban error or the
\* duplicate-limit error leaves the stored Reports and every Account record
\* unchanged, and the moderation service was not called for it: the answer
\* carries no verdict and no worker returns from a moderation call.
C15_FailsClosed ==
    [][GateRefuses =>
          /\ reports' = reports
          /\ users' = users
          /\ ~last'.moderated
          /\ \A p \in Procs : pc[p] = "moderating" => pc'[p] = "moderating"
          /\ \E p \in Procs : pc[p] \in {"idle", "dup"} /\ pc'[p] = "idle"]_vars

\* C15 witness: the ban error, answered to an account that has a rejected
\* Report in the store
C15_Witness ==
    /\ last.stage = "ban"
    /\ last.code = 403
    /\ last.reason = BanReasonText
    /\ Len(reports) >= 1
    /\ users["uidA"].is_banned

\* the step persists exactly one new Report, with the given status
PersistsOne(status) ==
    /\ Len(reports') = Len(reports) + 1
    /\ SubSeq(reports', 1, Len(reports)) = reports
    /\ reports'[Len(reports')].status = status

\* C16: a submission that reached moderation is answered with success (201,
\* reportId and confidence of the new Report) if and only if exactly one new
\* Report with status approved was persisted for it, and with the AI
\* rejection (400, reason and flags of the verdict) if and only if exactly
\* one new Report with status rejected was persisted for it; otherwise it is
\* answered with the server error and nothing is persisted. Every answer of
\* the endpoint is one outcome: success, validation error, duplicate-limit
\* error, ban error, AI rejection or server error.
C16_OutcomeMatchesStore ==
    [][/\ \A p \in Procs :
              (pc[p] = "moderating" /\ pc'[p] = "idle") =>
                  /\ last'.moderated
                  /\ last'.code \in {201, 400, 500}
                  /\ (last'.code = 201) <=> PersistsOne("approved")
                  /\ (last'.code = 400) <=> PersistsOne("rejected")
                  /\ (last'.code = 500) <=> (reports' = reports)
                  /\ last'.code = 201 =>
                         /\ last'.reportId = Len(reports')
                         /\ last'.confidence
                                = reports'[Len(reports')].moderation_confidence
                  /\ last'.code = 400 =>
                         /\ last'.reason = reports'[Len(reports')].moderation_reason
                         /\ last'.flags = reports'[Len(reports')].moderation_flags
       /\ last'.code # 0 =>
              <<last'.stage, last'.code>> \in
                  { <<"validate", 400>>, <<"ban", 403>>, <<"dup", 429>>,
                    <<"flush", 500>>, <<"commit", 201>>,
                    <<"commit", 400>>, <<"commit", 500>> }]_vars

\* C16 witness: the AI rejection answered for the Report just stored as
\* rejected
C16_Witness ==
    /\ last.stage = "commit"
    /\ last.code = 400
    /\ last.flags = <<"spam">>
    /\ Len(reports) >= 1
    /\ reports[Len(reports)].status = "rejected"
    /\ reports[Len(reports)].moderation_flags = <<"spam">>

\* the decision of the variant's duplicate guard on a request in this state
VariantBlocks(ip, data) ==
    variant_check_duplicate_reports(upper(data.plateNumber),
                                    VariantIdentity(ip, data), now) >= 3

\* two bodies that differ in nothing but the userId
SameButUserId(d1, d2) ==
    /\ d1.plateNumber = d2.plateNumber
    /\ d1.violations = d2.violations
    /\ d1.location = d2.location

\* C17 (variant endpoint): in every state, two submissions without
\* credential from the same address for the same plate whose bodies differ
\* only in the userId get the same decision of the duplicate guard.
C17_AddressIsTheIdentity ==
    \A ip \in Ips : \A d1 \in VariantBodies, d2 \in VariantBodies :
        SameButUserId(d1, d2) => (VariantBlocks(ip, d1) <=> VariantBlocks(ip, d2))

\* C17 (variant endpoint): the reporter stored on a Report is the caller's
\* address and nothing else
C17_StoredIdentityIsAddress ==
    \A i \in 1..Len(reports) : reports[i].user_id \in Ips

\* s is exactly KL-DD-LL-DDDD: two digits, one or two uppercase letters, one
\* to four digits, and not one character more
MatchesGrammar(s) ==
    \E a \in 1..2, b \in 1..4 :
        /\ Len(s) = 7 + a + b
        /\ SubSeq(s, 1, 3) = <<"K", "L", "-">>
        /\ s[4] \in Digits /\ s[5] \in Digits
        /\ s[6] = "-"
        /\ \A i \in 7..(6 + a) : s[i] \in UpperLetters
        /\ s[7 + a] = "-"
        /\ \A i \in (8 + a)..Len(s) : s[i] \in Digits

\* C18: for every input string, the validator accepts the string if and only
\* if its uppercase form is exactly KL-DD-LL-DDDD, with no character before
\* or after.
C18_AcceptsExactlyTheGrammar ==
    validation.done =>
        (validation.accepted <=> MatchesGrammar(validation.plate_number))

\* C19: in every reachable state the reputationScore of every Account lies
\* in [0.0, 100.0] (0..200 half points), and an Account that has just been
\* created, committed or not, has 100.0.
C19_ReputationInRange ==
    /\ \A uid \in Uids :
           users[uid].exists =>
               /\ users[uid].reputation_score \in 0..200
               /\ (archive[uid] = 0 /\ users[uid].total_reports = 0)
                      => users[uid].reputation_score = 200
    /\ \A p \in Procs :
           sess[p].is_new => sess[p].user.reputation_score = 200

\* C19 witness: an Account created at 100.0 whose approved Report left it
\* at 100.0
C19_Witness ==
    /\ users["uidA"].exists
    /\ archive["uidA"] = 0
    /\ users["uidA"].approved_reports >= 1
    /\ users["uidA"].rejected_reports = 0
    /\ users["uidA"].reputation_score = 200

\* C20: in every reachable state banReason is set if and only if isBanned is
\* true; a step changes banReason only if it turns isBanned from false to
\* true.
C20_BanReasonIffBanned ==
    [][\A uid \in Uids :
          /\ users'[uid].is_banned <=> (users'[uid].ban_reason \notin {"None", ""})
          /\ users[uid].is_banned <=> (users[uid].ban_reason \notin {"None", ""})
          /\ users'[uid].ban_reason # users[uid].ban_reason =>
                 (~users[uid].is_banned /\ users'[uid].is_banned)
          /\ (~users[uid].is_banned /\ users'[uid].is_banned) =>
                 users'[uid].ban_reason = BanReasonText]_vars

\* C20 witness: a banned Account with its reason, after a later step wrote
\* the row again (an approval that was in flight when the ban was committed)
C20_Witness ==
    /\ users["uidA"].is_banned
    /\ users["uidA"].ban_reason = BanReasonText
    /\ users["uidA"].approved_reports > 2
    /\ users["uidA"].rejected_reports > 40

\* C21: every stored Report whose moderation has run has a moderation
\* confidence between 0.0 and 1.0, whatever text the moderation service
\* returned. The code stores the number of the "confidence" member as it
\* comes: the statement fails for a returned confidence of 1.7.
C21_ConfidenceInUnitRange ==
    \A i \in 1..Len(reports) :
        reports[i].moderation_reviewed_at # -1 =>
            reports[i].moderation_confidence \in 0..100

\* the approved Reports of the store, counted on the rows themselves
ApprovedStored == { i \in 1..Len(reports) : reports[i].status = "approved" }

\* C22: the read endpoints expose approved Reports only. A listing returns
\* only approved Reports, newest first, and its total is the number of all
\* approved Reports whatever limit and offset are; a lookup by plate returns
\* only approved Reports of that plate; neither returns a rejected Report.
C22_ReadsExposeApprovedOnly ==
    /\ last.stage = "get_reports" =>
          /\ \A k \in 1..Len(last.items) :
                /\ last.items[k].status = "approved"
                /\ last.items[k].id \in ApprovedStored
          /\ \A k \in 1..(Len(last.items) - 1) :
                last.items[k].timestamp >= last.items[k + 1].timestamp
          /\ last.total = Cardinality(ApprovedStored)
    /\ last.stage = "get_reports_by_plate" =>
          \A k \in 1..Len(last.items) :
              /\ last.items[k].status = "approved"
              /\ last.items[k].id \in ApprovedStored
              /\ reports[last.items[k].id].plate_number = last.plateNumber
              /\ last.plateNumber \in {PlateUpper, PlateOther}
    /\ \A k \in 1..Len(last.items) :
          reports[last.items[k].id].status # "rejected"

\* C22 witness: the second page of a listing over a store that holds
\* rejected Reports and more approved ones than the page shows
C22_Witness ==
    /\ last.stage = "get_reports"
    /\ last.offset = 1 /\ last.limit = 2
    /\ Len(last.items) = 2
    /\ last.total >= 5
    /\ \E i \in 1..Len(reports) : reports[i].status = "rejected"

\* C23: lookup by plate is case-insensitive end to end. Once an anonymous
\* submission of a valid plate, in the letter case its client writes, is
\* stored as approved, a lookup of the same plate in any letter case returns
\* that Report, and the Report's reporter identity is the caller's address.
C23_LookupIgnoresCase ==
    (last.stage = "get_reports_by_plate"
        /\ last.path \in {PlateLower, PlateUpper, PlateMixed}) =>
        \A i \in ApprovedStored :
            \E k \in 1..Len(last.items) :
                /\ last.items[k].id = i
                /\ last.items[k].plateNumber = PlateUpper
                /\ reports[i].user_ip \in Ips
                /\ reports[i].user_id = 0

\* C23 witness: a plate submitted in lower case and looked up in mixed case
C23_Witness ==
    /\ validation.input = PlateLower
    /\ last.stage = "get_reports_by_plate"
    /\ last.path = PlateMixed
    /\ Len(last.items) >= 2
    /\ \E i \in 1..Len(reports) : reports[i].status = "rejected"

\* C24: a lookup by plate returns safetyScore = max(0, 100 - 10 * count),
\* count being the approved Reports stored for that plate: rejected Reports
\* do not lower it, 5 approved Reports give 50, 10 or more give 0, and the
\* score is never negative.
C24_SafetyScore ==
    last.stage = "get_reports_by_plate" =>
        LET count == Cardinality({ i \in ApprovedStored :
                         reports[i].plate_number = last.plateNumber })
            linear == 100 - 10 * count
        IN  /\ last.safetyScore = IF linear > 0 THEN linear ELSE 0
            /\ count = 5 => last.safetyScore = 50
            /\ count >= 10 => last.safetyScore = 0
            /\ last.safetyScore >= 0

\* C24 witness: eleven approved and two rejected Reports of one plate
C24_Witness ==
    /\ last.stage = "get_reports_by_plate"
    /\ last.total = 11
    /\ last.safetyScore = 0
    /\ Cardinality({ i \in 1..Len(reports) :
           /\ reports[i].plate_number = last.plateNumber
           /\ reports[i].status = "rejected" }) = 2

\* text[i..j] is a JSON object: members between a "{" and the next "}"
IsObjectAt(text, i, j) ==
    /\ i < j
    /\ text[i] = "{"
    /\ text[j] = "}"
    /\ \A k \in (i + 1)..(j - 1) : text[k] \in MemberTokens

\* the text holds a JSON object and no "{" before it
HasJsonObject(text) ==
    \E i, j \in 1..Len(text) :
        /\ IsObjectAt(text, i, j)
        /\ \A k \in 1..(i - 1) : text[k] # "{"

\* the JSON object of the text that starts first
FirstJsonObject(text) ==
    LET starts == { a \in 1..Len(text) :
                      \E b \in 1..Len(text) : IsObjectAt(text, a, b) }
        i == CHOOSE a \in starts : \A b \in starts : a <= b
        j == CHOOSE b \in 1..Len(text) : IsObjectAt(text, i, b)
    IN  SubSeq(text, i, j)

\* C25: when the text the moderation service returns holds a JSON object
\* inside other text, the verdict is that of the first JSON object of the
\* text, also when further braces or a second object follow it. The code
\* parses from the first "{" to the last "}" of the text: the statement
\* fails whenever a "}" follows the first object.
C25_VerdictFromFirstObject ==
    (adj.done /\ ~adj.outcome.raises /\ HasJsonObject(adj.outcome.text)) =>
        adj.verdict = ParsedVerdict(FirstJsonObject(adj.outcome.text))

\* the text has braces, and between its first "{" and its last "}" there is
\* something that is not a member of a JSON object
BracesWithoutJson(text) ==
    \E i, j \in 1..Len(text) :
        /\ i < j
        /\ text[i] = "{" /\ \A k \in 1..(i - 1) : text[k] # "{"
        /\ text[j] = "}" /\ \A k \in (j + 1)..Len(text) : text[k] # "}"
        /\ \E k \in (i + 1)..(j - 1) : text[k] \notin MemberTokens

\* the moderation call of the request just answered returned such a text
ModerationUnparsed ==
    /\ last.moderated
    /\ ~last.outcome.raises
    /\ BracesWithoutJson(last.outcome.text)

C27_LowReputationIsBanned ==
    [][\A uid \in Uids :
          /\ users'[uid].exists =>
                /\ users'[uid].reputation_score < 40 => users'[uid].is_banned
                /\ users'[uid].reputation_score >= 36
          /\ users[uid].is_banned =>
                /\ users'[uid].is_banned
                /\ users'[uid].total_reports = users[uid].total_reports
                /\ users'[uid].approved_reports = users[uid].approved_reports
                /\ users'[uid].rejected_reports = users[uid].rejected_reports
                /\ users'[uid].reputation_score = users[uid].reputation_score
      ]_vars

\* C27 witness: the account fell from 20.0 to 18.0 with its 41st report, was
\* banned, and its next submission was refused
C27_Witness ==
    /\ users["uidA"].reputation_score = 36
    /\ users["uidA"].is_banned
    /\ users["uidA"].total_reports = 41
    /\ last.code = 403

\* the account's row before a request, as the request loads or creates it
RowBefore(uid) == IF users[uid].exists THEN users[uid] ELSE NewUser(uid)

\* a step in which an authenticated submission whose moderation call raised
\* is answered
RaisedStep ==
    /\ client \in Uids
    /\ last'.moderated
    /\ last'.outcome.raises
    /\ \E p \in Procs : pc[p] = "moderating" /\ pc'[p] = "idle"

\* C30 as claimed: when requests come one at a time, an authenticated
\* submission whose moderation call raises is recorded as an approval
\* (approvedReports + 1, reputation not decreased) and does not turn
\* isBanned from false to true.
C30_OutageAlwaysRecordedAsApproval ==
    [][RaisedStep =>
          LET u == RowBefore(client)
              v == users'[client]
          IN  /\ v.approved_reports = u.approved_reports + 1
              /\ v.reputation_score >= u.reputation_score
              /\ ~(~u.is_banned /\ v.is_banned)
      ]_vars

\* C30 as amended: such a submission never lowers the reputation and never
\* turns isBanned from false to true; it is recorded as an approval
\* (approvedReports + 1, totalReports + 1, rejectedReports as before) when
\* its commit succeeds, and is not recorded at all when its commit fails.
C30_OutageNeverCosts ==
    [][RaisedStep =>
          LET u == RowBefore(client)
              v == users'[client]
          IN  \/ /\ last'.code = 201
                 /\ v.approved_reports = u.approved_reports + 1
                 /\ v.total_reports = u.total_reports + 1
                 /\ v.rejected_reports = u.rejected_reports
                 /\ v.reputation_score >= u.reputation_score
                 /\ ~(~u.is_banned /\ v.is_banned)
                 /\ Len(reports') = Len(reports) + 1
                 /\ reports'[Len(reports')].status = "approved"
              \/ /\ last'.code = 500
                 /\ users' = users
                 /\ reports' = reports
      ]_vars

\* C30 witness: the moderation call raised for an account at 20.0, one
\* rejection away from the ban, and the account went up to 20.5
C30_Witness ==
    /\ last.moderated /\ last.outcome.raises /\ last.code = 201
    /\ users["uidA"].reputation_score = 41
    /\ users["uidA"].rejected_reports = 40
    /\ users["uidA"].approved_reports = 1
    /\ ~users["uidA"].is_banned

\* of the reports stored before the run for the account, those approved
ArchivedApproved(uid) ==
    IF archive[uid] = 0 THEN 0 ELSE SeasonedUser.approved_reports

\* the Reports of table reports with the account as reporter and the status
StoredWith(uid, status) ==
    Cardinality({ i \in 1..Len(reports) :
        /\ reports[i].user_id = UserId(uid)
        /\ reports[i].status = status })

\* C28: when operations come one at a time, for every account totalReports =
\* approvedReports + rejectedReports, and the three counters are the numbers
\* of all, of the approved and of the rejected Reports stored with the
\* account as reporter.
C28_CountersMatchStore ==
    \A uid \in Uids :
        users[uid].exists =>
            /\ users[uid].total_reports =
                   users[uid].approved_reports + users[uid].rejected_reports
            /\ users[uid].total_reports = StoredFor(uid)
            /\ users[uid].approved_reports =
                   ArchivedApproved(uid) + StoredWith(uid, "approved")
            /\ users[uid].rejected_reports =
                   (archive[uid] - ArchivedApproved(uid))
                       + StoredWith(uid, "rejected")
            /\ StoredWith(uid, "pending") = 0

\* C28 witness: an account created in the run with two approved Reports and
\* one rejected
C28_Witness ==
    /\ archive["uidA"] = 0
    /\ users["uidA"].exists
    /\ users["uidA"].approved_reports = 2
    /\ users["uidA"].rejected_reports = 1
    /\ Len(reports) = 3

\* C29: Reports rejected by moderation are stored and count toward the
\* duplicate limit: after three submissions of one reporter for one plate
\* within 24 hours, each rejected by the adjudicator, a fourth within the
\* window is answered with the rate-limit error and the adjudicator is not
\* called.
C29_RejectedCountTowardLimit ==
    [][\A p \in Procs :
          /\ (pc[p] = "moderating" /\ last'.code = 400) =>
                /\ Len(reports') = Len(reports) + 1
                /\ reports'[Len(reports')].status = "rejected"
                /\ reports'[Len(reports')].plate_number = sess[p].plate_number
          /\ (pc[p] = "dup" /\ pc'[p] # "dup"
                /\ Cardinality({ i \in RecentOf(p, now) :
                                   reports[i].status = "rejected" }) >= 3) =>
                /\ last'.code = 429
                /\ last'.reason = "duplicate_prevention"
                /\ ~last'.moderated
                /\ pc'[p] = "idle"
                /\ reports' = reports
      ]_vars

\* C29 witness: three rejected Reports are all the store holds, and the
\* fourth submission has just been answered 429
C29_Witness ==
    /\ last.code = 429
    /\ ~last.moderated
    /\ Len(reports) = 3
    /\ \A i \in 1..3 : reports[i].status = "rejected"

====
